---- MODULE Spec2Model ----
(***************************************************************************)
(* A model of wildfire.goes: the cadence walk of get_goes_sequence and the *)
(* GoesSequence constructor (sequence.py), and the listing, path mapping   *)
(* and parallel download of downloader.py.                                 *)
(*                                                                         *)
(* Times are whole minutes counted from the first minute of the modelled   *)
(* window.  A scan is the set of per-band objects sharing one scan start.  *)
(***************************************************************************)
EXTENDS Integers, Sequences, FiniteSets, TLC

\* ------------------------------------------------------------- bounds
\* Last minute of the modelled window: requests and scan starts lie in 0..MaxTime.
MaxTime == 5
\* Number of band objects of the incomplete scans the store may hold.
PartialBands == 10
\* The "Finding scan close to" log keeps at most this many records per timestamp.
MaxLog == 2
\* Largest max_scans_per_hour argument tried.
MaxScansPerHour == 61

\* ---------------------------------------------------------- constants
\* channels=list(range(1, 17)) and the well-formedness test len(...) != 16.
NumBands == 16
\* The numerator of 60 // max_scans_per_hour.
MinutesPerHour == 60

Times == 0..MaxTime
Satellites == {"G16", "G17"}
Regions == {"M1", "M2", "C", "F"}
\* Python's None, and an int argument n as <<n>>.
None == <<>>

\* utilities.REGION_TIME_RESOLUTION_MINUTES: the region's minimum cadence.
REGION_TIME_RESOLUTION_MINUTES ==
    [r \in Regions |-> CASE r = "M1" -> 1 [] r = "M2" -> 1 [] r = "C" -> 5 [] r = "F" -> 15]

VARIABLES
    \* get_goes_sequence and GoesSequence
    satellite, region, start_time_utc, end_time_utc, max_scans_per_hour,
    s3_objects,        \* what query_s3 returned: scan start -> number of band objects
    time_resolution,   \* minutes between candidate timestamps
    current_time_utc,  \* the candidate timestamp of the walk
    scans,             \* the list handed to GoesSequence
    pc,                \* position in get_goes_sequence / the constructor
    finding_log,       \* "Finding scan close to %s" records per timestamp
    warning_log,       \* timestamps with a "Could not find well-formed scan" record
    sequence,          \* the constructed GoesSequence, <<>> before
    error,             \* the exception that left the call, "none" otherwise
    \* download_files
    local_directory,   \* the root directory of the download
    s3_filepaths,      \* what list_s3_files returned, in order
    failing,           \* the tasks whose s3.get raises
    next_task,         \* the next task the pool hands to a worker
    running,           \* worker -> the task it runs, 0 when idle
    results,           \* task -> its result, <<>> while pending
    dl_pc,             \* position in download_files
    local_filepaths,   \* what download_files returned
    \* list_s3_files
    start_time, end_time,   \* the request; end_time may be None
    glob_patterns,     \* the listing patterns, in order
    globbed,           \* how many patterns have been listed
    filepaths,         \* the objects listed so far
    listed,            \* what list_s3_files returned
    ls_pc              \* position in list_s3_files

seqVars == <<satellite, region, start_time_utc, end_time_utc, max_scans_per_hour,
             s3_objects, time_resolution, current_time_utc, scans, pc,
             finding_log, warning_log, sequence, error>>
dlVars == <<local_directory, s3_filepaths, failing, next_task, running, results,
            dl_pc, local_filepaths>>
lsVars == <<start_time, end_time, glob_patterns, globbed, filepaths, listed, ls_pc>>
vars == <<seqVars, dlVars, lsVars>>

\* ------------------------------------------------------------ helpers
Abs(x) == IF x < 0 THEN -x ELSE x
Max2(a, b) == IF a >= b THEN a ELSE b
SetMin(S) == CHOOSE m \in S : \A x \in S : m <= x
SetMax(S) == CHOOSE m \in S : \A x \in S : m >= x

RECURSIVE sorted(_)
\* Python's sorted() over a set of distinct keys.
sorted(S) == IF S = {} THEN <<>> ELSE <<SetMin(S)>> \o sorted(S \ {SetMin(S)})

\* Python's floor division a // b.
FloorDiv(a, b) == a \div b

\* ----------------------------------------------------- get_goes_sequence
\* Lines 35-36: the default of max_scans_per_hour.
DefaultedScans(m) == IF m = None THEN -1 ELSE m[1]

\* A slip that takes only the requested cadence.
time_resolution_requested_only(m, r) == FloorDiv(MinutesPerHour, DefaultedScans(m))

\* Lines 45-47: max([60 // max_scans_per_hour, REGION_TIME_RESOLUTION_MINUTES[region]]).
time_resolution_of(m, r) ==
    Max2(FloorDiv(MinutesPerHour, DefaultedScans(m)), REGION_TIME_RESOLUTION_MINUTES[r])

\* query_s3 restricted to [start, end]: objects outside the window are discarded.
query_s3(store, start, end) ==
    [t \in Times |-> IF start <= t /\ t <= end THEN store[t] ELSE 0]

\* The scan starts present among the listed objects.
ScanTimes(objs) == {t \in Times : objs[t] > 0}

\* The scan start closest to desired_time; ties go to the earlier scan.
ClosestTime(objs, desired_time) ==
    CHOOSE t \in ScanTimes(objs) :
        \A u \in ScanTimes(objs) :
            \/ Abs(t - desired_time) < Abs(u - desired_time)
            \/ Abs(t - desired_time) = Abs(u - desired_time) /\ t <= u

\* utilities.find_scans_closest_to_time: the objects of the closest scan.
find_scans_closest_to_time(objs, desired_time) ==
    IF ScanTimes(objs) = {} THEN {}
    ELSE LET t == ClosestTime(objs, desired_time)
         IN  {[scan_time |-> t, band |-> b] : b \in 1..objs[t]}

\* A slip that accepts any non-empty scan.
well_formed_nonempty(closest) == Cardinality(closest) # 0

\* Line 55, negated: len(closest_scan_objects) == 16.
well_formed(closest) == Cardinality(closest) = NumBands

\* scan.read_netcdfs: the GoesScan of the objects read.
read_netcdfs(closest, sat, reg) ==
    [type |-> "GoesScan",
     scan_time_utc |-> (CHOOSE o \in closest : TRUE).scan_time,
     satellite |-> sat, region |-> reg,
     bands |-> {o.band : o \in closest}]

\* A slip that leaves the end of the range out.
while_cond_exclusive(current, end) == current < end

\* Line 50: while current_time_utc <= end_time_utc.
while_cond(current, end) == current <= end

\* One more record in the bounded log of timestamp t.
Logged(log, t) == [log EXCEPT ![t] = IF @ < MaxLog THEN @ + 1 ELSE @]

\* Lines 35-49: defaults, listing, cadence, the start of the walk.
Start ==
    /\ pc = "start"
    /\ time_resolution' = time_resolution_of(max_scans_per_hour, region)
    /\ current_time_utc' = start_time_utc
    /\ scans' = <<>>
    /\ pc' = "while"
    /\ UNCHANGED <<satellite, region, start_time_utc, end_time_utc, max_scans_per_hour,
                   s3_objects, finding_log, warning_log, sequence, error>>
    /\ UNCHANGED <<dlVars, lsVars>>

\* Lines 50-51: the loop test, and the log record of the candidate.
WhileTest ==
    /\ pc = "while"
    /\ IF while_cond(current_time_utc, end_time_utc)
       THEN /\ finding_log' = Logged(finding_log, current_time_utc)
            /\ pc' = "body"
       ELSE /\ finding_log' = finding_log
            /\ pc' = "construct"
    /\ UNCHANGED <<satellite, region, start_time_utc, end_time_utc, max_scans_per_hour,
                   s3_objects, time_resolution, current_time_utc, scans,
                   warning_log, sequence, error>>
    /\ UNCHANGED <<dlVars, lsVars>>

\* Lines 52-57: no well-formed scan; warn and continue, current_time_utc as it was.
BodySkip ==
    /\ pc = "body"
    /\ ~well_formed(find_scans_closest_to_time(s3_objects, current_time_utc))
    /\ warning_log' = warning_log \cup {current_time_utc}
    /\ pc' = "while"
    /\ UNCHANGED <<satellite, region, start_time_utc, end_time_utc, max_scans_per_hour,
                   s3_objects, time_resolution, current_time_utc, scans,
                   finding_log, sequence, error>>
    /\ UNCHANGED <<dlVars, lsVars>>

\* Lines 52-55, 59-67: read the scan, append it, step to the next candidate.
BodyAppend ==
    /\ pc = "body"
    /\ LET closest == find_scans_closest_to_time(s3_objects, current_time_utc)
       IN  /\ well_formed(closest)
           /\ scans' = Append(scans, read_netcdfs(closest, satellite, region))
    /\ current_time_utc' = current_time_utc + time_resolution
    /\ pc' = "while"
    /\ UNCHANGED <<satellite, region, start_time_utc, end_time_utc, max_scans_per_hour,
                   s3_objects, time_resolution, finding_log, warning_log,
                   sequence, error>>
    /\ UNCHANGED <<dlVars, lsVars>>

\* ---------------------------------------------------------- GoesSequence
\* Lines 184-189: every element is a GoesScan.
assert_input_goes_scan(ss) == \A i \in 1..Len(ss) : ss[i].type = "GoesScan"

\* A slip that keys nothing: one entry per scan, in list order.
parse_input_unkeyed(ss) == [i \in 1..Len(ss) |-> [key |-> ss[i].scan_time_utc, scan |-> ss[i]]]

\* Lines 128-130: key by scan_time_utc (a later scan replaces an earlier one
\* with the same key), then order by key.
parse_input(ss) ==
    LET keys == {ss[i].scan_time_utc : i \in 1..Len(ss)}
        last(k) == SetMax({i \in 1..Len(ss) : ss[i].scan_time_utc = k})
        ordered_keys == sorted(keys)
    IN  [j \in 1..Len(ordered_keys) |-> [key |-> ordered_keys[j], scan |-> ss[last(ordered_keys[j])]]]

\* The keys of a parsed mapping, in its order.
Keys(parsed) == [j \in 1..Len(parsed) |-> parsed[j].key]

\* Lines 101-105: GoesSequence.__init__.
Construct ==
    /\ pc = "construct"
    /\ IF ~assert_input_goes_scan(scans)
       THEN /\ error' = "ValueError" /\ pc' = "raised" /\ sequence' = sequence
       ELSE IF Len(scans) = 0
       THEN /\ error' = "IndexError" /\ pc' = "raised" /\ sequence' = sequence
       ELSE LET parsed == parse_input(scans)
            IN  /\ sequence' = [scans |-> parsed,
                                satellite |-> scans[1].satellite,
                                region |-> scans[1].region,
                                first_scan_utc |-> SetMin({parsed[j].key : j \in 1..Len(parsed)}),
                                last_scan_utc |-> SetMax({parsed[j].key : j \in 1..Len(parsed)})]
                /\ error' = error
                /\ pc' = "returned"
    /\ UNCHANGED <<satellite, region, start_time_utc, end_time_utc, max_scans_per_hour,
                   s3_objects, time_resolution, current_time_utc, scans,
                   finding_log, warning_log>>
    /\ UNCHANGED <<dlVars, lsVars>>

\* ------------------------------------------------- the walk's specification
BandCounts == {0, PartialBands, NumBands}
ScanRateInputs == {None, <<1>>, <<30>>, <<MaxScansPerHour>>}

SeqInit ==
    /\ satellite \in Satellites
    /\ region \in Regions
    /\ start_time_utc \in Times
    /\ end_time_utc \in Times
    /\ max_scans_per_hour \in ScanRateInputs
    \* The store inside the requested range is arbitrary; outside it the store
    \* holds complete scans, which the listing must not let through.
    /\ \E window \in [start_time_utc..end_time_utc -> BandCounts] :
           s3_objects = query_s3([t \in Times |-> IF t \in DOMAIN window
                                                    THEN window[t] ELSE NumBands],
                                 start_time_utc, end_time_utc)
    /\ time_resolution = 0
    /\ current_time_utc = 0
    /\ scans = <<>>
    /\ pc = "start"
    /\ finding_log = [t \in Times |-> 0]
    /\ warning_log = {}
    /\ sequence = <<>>
    /\ error = "none"

\* The download and the listing at rest.
DlIdle ==
    /\ local_directory = "" /\ s3_filepaths = <<>> /\ failing = {} /\ next_task = 1
    /\ running = <<>> /\ results = <<>> /\ dl_pc = "idle" /\ local_filepaths = <<>>
LsIdle ==
    /\ start_time = <<>> /\ end_time = <<>> /\ glob_patterns = <<>> /\ globbed = 0
    /\ filepaths = {} /\ listed = {} /\ ls_pc = "idle"

Init == SeqInit /\ DlIdle /\ LsIdle

Next == Start \/ WhileTest \/ BodySkip \/ BodyAppend \/ Construct

Spec == Init /\ [][Next]_vars

\* The interpreter keeps running the call: a step that can be taken is taken.
FairSpec == Spec /\ WF_vars(Next)

\* ------------------------------------------------------ claims on the walk
Terminated == pc \in {"returned", "raised"}
\* The candidate timestamps start + k*cadence <= end, in order.
Candidates == {c \in Times : /\ start_time_utc <= c /\ c <= end_time_utc
                             /\ time_resolution > 0
                             /\ (c - start_time_utc) % time_resolution = 0}
Walking == pc \in {"while", "body", "construct", "returned", "raised"}

\* C1: every candidate timestamp of the walk is visited exactly once (a step with
\* no well-formed closest scan is skipped and the walk moves on), so no candidate
\* is ever logged as visited a second time.
C1_EachCandidateVisitedOnce == \A t \in Times : finding_log[t] <= 1

StrictlyIncreasing(ks) == \A j \in 1..(Len(ks) - 1) : ks[j] < ks[j + 1]
SpacedBy(ks, d) == \A j \in 1..(Len(ks) - 1) : ks[j + 1] - ks[j] >= d

\* C3 (as stated): the returned timestamps are strictly increasing and any two
\* consecutive ones differ by at least the region's minimum cadence.
C3_IncreasingAndSpaced ==
    pc = "returned" =>
        /\ StrictlyIncreasing(Keys(sequence.scans))
        /\ SpacedBy(Keys(sequence.scans), REGION_TIME_RESOLUTION_MINUTES[region])

\* C3 (amended): the returned timestamps are strictly increasing with no
\* duplicate, and they are exactly the scan times of the scans chosen.
C3_StrictlyIncreasing ==
    pc = "returned" =>
        /\ StrictlyIncreasing(Keys(sequence.scans))
        /\ {sequence.scans[j].key : j \in 1..Len(sequence.scans)}
               = {scans[i].scan_time_utc : i \in 1..Len(scans)}
        /\ Len(sequence.scans) = Cardinality({scans[i].scan_time_utc : i \in 1..Len(scans)})

\* C3 witness: a sequence was returned in which one scan was the closest of two
\* steps, so the keyed mapping is shorter than the list of scans.
C3_Witness ==
    /\ pc = "returned"
    /\ Len(sequence.scans) >= 2
    /\ Len(sequence.scans) < Len(scans)

\* The store holds a complete scan at every candidate timestamp.
CompleteAtCandidates == \A c \in Candidates : s3_objects[c] = NumBands

\* C4: with a complete 16-band scan at every candidate timestamp of a range
\* start <= end, no step is skipped, the call does not fail, and the returned
\* sequence has one observation per candidate (end inclusive), each with 16
\* bands and keyed by that candidate.
C4_OnePerCandidate ==
    (Walking /\ start_time_utc <= end_time_utc /\ CompleteAtCandidates) =>
        /\ warning_log = {}
        /\ pc # "raised"
        /\ pc = "returned" =>
               /\ Keys(sequence.scans) = sorted(Candidates)
               /\ \A j \in 1..Len(sequence.scans) :
                      /\ sequence.scans[j].scan.bands = 1..NumBands
                      /\ sequence.scans[j].scan.scan_time_utc = sequence.scans[j].key

\* C4 witness: a 1-minute cadence over 0..5 returned its 6 observations.
C4_Witness ==
    /\ pc = "returned" /\ CompleteAtCandidates
    /\ time_resolution = 1 /\ start_time_utc = 0 /\ end_time_utc = 5
    /\ Len(sequence.scans) = 6

\* C8: when no observation at all is found in the range of a call, the call
\* fails (it ends by raising).
C8_EmptyRangeFails ==
    (pc = "start" /\ start_time_utc <= end_time_utc /\ ScanTimes(s3_objects) = {})
        ~> (pc = "raised")

\* ------------------------------------------------- the cadence on its own
\* None and every int argument from 1 to MaxScansPerHour.
CadenceInputs == {None} \cup {<<n>> : n \in 1..MaxScansPerHour}

InitCadence ==
    /\ satellite \in Satellites
    /\ region \in Regions
    /\ max_scans_per_hour \in CadenceInputs
    /\ start_time_utc = 0 /\ end_time_utc = 0
    /\ s3_objects = [t \in Times |-> 0]
    /\ time_resolution = 0 /\ current_time_utc = 0 /\ scans = <<>>
    /\ pc = "start"
    /\ finding_log = [t \in Times |-> 0] /\ warning_log = {}
    /\ sequence = <<>> /\ error = "none"
    /\ DlIdle /\ LsIdle

NextCadence == Start

SpecCadence == InitCadence /\ [][NextCadence]_vars

\* C7: the step between candidate timestamps is max(60 // max_scans_per_hour,
\* region minimum cadence); for every max_scans_per_hour >= 1, and when it is
\* omitted, the step is positive and never smaller than the region's minimum.
C7_CadenceAtLeastRegionMinimum ==
    pc = "while" =>
        /\ time_resolution > 0
        /\ time_resolution >= REGION_TIME_RESOLUTION_MINUTES[region]
        /\ max_scans_per_hour = None
               => time_resolution = REGION_TIME_RESOLUTION_MINUTES[region]
        /\ max_scans_per_hour # None
               => \E q \in 0..MinutesPerHour :
                      /\ q * max_scans_per_hour[1] <= MinutesPerHour
                      /\ MinutesPerHour < (q + 1) * max_scans_per_hour[1]
                      /\ time_resolution =
                             IF q >= REGION_TIME_RESOLUTION_MINUTES[region]
                             THEN q ELSE REGION_TIME_RESOLUTION_MINUTES[region]

\* C7 witness: more scans per hour were asked for than the hour has minutes
\* (60 // 61 = 0) and the step is the region's minimum; and a coarser request
\* than the region's minimum was honoured.
C7_Witness ==
    /\ pc = "while"
    /\ max_scans_per_hour = <<MaxScansPerHour>>
    /\ region = "C"
    /\ time_resolution = 5

\* --------------------------------------------- the constructor on its own
\* Longest list of scans handed to the constructor.
MaxScans == 2

GoesScans ==
    {[type |-> "GoesScan", scan_time_utc |-> t, satellite |-> sat, region |-> reg,
      bands |-> 1..NumBands] : t \in Times, sat \in Satellites, reg \in Regions}
\* Something that is no GoesScan.
NotAScan ==
    [type |-> "str", scan_time_utc |-> 0, satellite |-> "", region |-> "", bands |-> {}]
ScanLists == UNION {[1..n -> GoesScans \cup {NotAScan}] : n \in 0..MaxScans}

InitConstruct ==
    /\ scans \in ScanLists
    /\ pc = "construct"
    /\ satellite = "" /\ region = "" /\ max_scans_per_hour = None
    /\ start_time_utc = 0 /\ end_time_utc = 0
    /\ s3_objects = [t \in Times |-> 0]
    /\ time_resolution = 0 /\ current_time_utc = 0
    /\ finding_log = [t \in Times |-> 0] /\ warning_log = {}
    /\ sequence = <<>> /\ error = "none"
    /\ DlIdle /\ LsIdle

NextConstruct == Construct

SpecConstruct == InitConstruct /\ [][NextConstruct]_vars

\* C9: constructing a GoesSequence from scans that do not all share the same
\* satellite and region fails; every constructed GoesSequence has the satellite
\* and region of every scan it holds.
C9_HomogeneousOrFails ==
    pc = "returned" =>
        \A j \in 1..Len(sequence.scans) :
            /\ sequence.scans[j].scan.satellite = sequence.satellite
            /\ sequence.scans[j].scan.region = sequence.region

\* ------------------------------------------------------------ downloader
\* Most files one download lists.
MaxFiles == 3
\* os.cpu_count(): the workers of the pool.
NumWorkers == 2

Workers == 1..NumWorkers
Buckets == {"noaa-goes16", "noaa-goes17"}
S3Keys == {<<"ABI-L1b-RadC", "OR_C01.nc">>, <<"ABI-L1b-RadM", "2019", "OR_M1C14.nc">>}
\* A remote path bucket/key as the sequence of its components.
S3Paths == {<<b>> \o k : b \in Buckets, k \in S3Keys}
LocalDirectories == {"data", "/tmp/goes"}

\* s3fs.core.split_path: the bucket, and the rest of the path.
split_path(s3_filepath) == [bucket |-> Head(s3_filepath), key |-> Tail(s3_filepath)]

\* Lines 69-72: LOCAL_FILEPATH_FORMAT = "{local_directory}/{s3_key}" with the
\* key of split_path; the bucket is dropped.
s3_filepath_to_local(s3_filepath, directory) ==
    <<directory>> \o split_path(s3_filepath).key

\* A task's captured result.
Success(path) == [ok |-> TRUE, path |-> path]
Failure == [ok |-> FALSE, path |-> <<>>]
Pending == <<>>

\* Lines 112-121: _download_file_mp returns the local path, or s3.get raises.
download_file_mp(task) ==
    IF task \in failing THEN Failure
    ELSE Success(s3_filepath_to_local(s3_filepaths[task], local_directory))

\* imap_function: the pool hands the next task to an idle worker.
Dispatch(w) ==
    /\ dl_pc = "map"
    /\ running[w] = 0
    /\ next_task <= Len(s3_filepaths)
    /\ running' = [running EXCEPT ![w] = next_task]
    /\ next_task' = next_task + 1
    /\ UNCHANGED <<local_directory, s3_filepaths, failing, results, dl_pc, local_filepaths>>
    /\ UNCHANGED <<seqVars, lsVars>>

\* imap_function: a worker's transfer ends and its outcome is kept for its task.
Transfer(w) ==
    /\ dl_pc = "map"
    /\ running[w] # 0
    /\ results' = [results EXCEPT ![running[w]] = download_file_mp(running[w])]
    /\ running' = [running EXCEPT ![w] = 0]
    /\ UNCHANGED <<local_directory, s3_filepaths, failing, next_task, dl_pc, local_filepaths>>
    /\ UNCHANGED <<seqVars, lsVars>>

\* Lines 153-166: the results are joined in submission order, their sizes are
\* summed with os.path.getsize and the list is returned.  A result that is no
\* path of a file on disk makes os.path.getsize raise, and nothing is returned.
Join ==
    /\ dl_pc = "map"
    /\ next_task > Len(s3_filepaths)
    /\ \A w \in Workers : running[w] = 0
    /\ IF \E i \in 1..Len(results) : ~results[i].ok
       THEN /\ dl_pc' = "raised" /\ local_filepaths' = local_filepaths
       ELSE /\ dl_pc' = "returned"
            /\ local_filepaths' = [i \in 1..Len(results) |-> results[i].path]
    /\ UNCHANGED <<local_directory, s3_filepaths, failing, next_task, running, results>>
    /\ UNCHANGED <<seqVars, lsVars>>

\* The walk and the constructor at rest.
SeqIdle ==
    /\ satellite = "" /\ region = "" /\ max_scans_per_hour = None
    /\ start_time_utc = 0 /\ end_time_utc = 0
    /\ s3_objects = [t \in Times |-> 0]
    /\ time_resolution = 0 /\ current_time_utc = 0 /\ scans = <<>>
    /\ pc = "idle"
    /\ finding_log = [t \in Times |-> 0] /\ warning_log = {}
    /\ sequence = <<>> /\ error = "none"

InitDownload ==
    /\ local_directory \in LocalDirectories
    /\ s3_filepaths \in UNION {[1..n -> S3Paths] : n \in 0..MaxFiles}
    /\ failing \in SUBSET (1..Len(s3_filepaths))
    /\ next_task = 1
    /\ running = [w \in Workers |-> 0]
    /\ results = [i \in 1..Len(s3_filepaths) |-> Pending]
    /\ dl_pc = "map"
    /\ local_filepaths = <<>>
    /\ SeqIdle /\ LsIdle

NextDownload == (\E w \in Workers : Dispatch(w)) \/ (\E w \in Workers : Transfer(w)) \/ Join

SpecDownload == InitDownload /\ [][NextDownload]_vars

\* C5: with fewer workers than files and one transfer failing, download_files
\* still ends with one result per file: it returns, the failure is recorded for
\* that file only, and the paths of the successful transfers reach the caller.
C5_FailureDoesNotLoseResults ==
    (/\ dl_pc \in {"returned", "raised"}
     /\ NumWorkers < Len(s3_filepaths)
     /\ Cardinality(failing) = 1)
        => /\ dl_pc = "returned"
           /\ \A i \in 1..Len(s3_filepaths) :
                  i \notin failing =>
                      \E j \in 1..Len(local_filepaths) :
                          local_filepaths[j] = results[i].path

\* C10: the local destination of a remote path bucket/key under a root is
\* root/bucket/key: the bucket and the whole key appear under the root.
C10_LocalPathKeepsBucket ==
    \A i \in 1..Len(results) :
        (results[i] # Pending /\ results[i].ok)
            => results[i].path = <<local_directory>> \o s3_filepaths[i]

\* --------------------------------------------------------- list_s3_files
\* A scan start to the minute: <<year, day of year, hour, minute>>.
ListYears == {2019, 2020}
ListDays == {299, 300}
ListHours == {20, 21}
ListMinutes == {0, 48}
Timestamps == {<<y, d, h, m>> : y \in ListYears, d \in ListDays, h \in ListHours, m \in ListMinutes}
\* The store: one object per scan start of the hierarchy.
Store == {[scan_start |-> ts, band |-> 1] : ts \in Timestamps}

\* datetime's a <= b, field by field.
NotAfter(a, b) ==
    \/ a[1] < b[1]
    \/ a[1] = b[1] /\ a[2] < b[2]
    \/ a[1] = b[1] /\ a[2] = b[2] /\ a[3] < b[3]
    \/ a[1] = b[1] /\ a[2] = b[2] /\ a[3] = b[3] /\ a[4] <= b[4]

\* utilities.decide_fastest_glob_patterns: the patterns, coarsest safe
\* granularity for the span.  A pattern is the prefix of <<year, day, hour,
\* minute>> it pins; the fields after it are wildcards.
decide_fastest_glob_patterns(start, end) ==
    IF end = None THEN << start >>
    ELSE IF start[1] # end[1]
    THEN [i \in 1..(end[1] - start[1] + 1) |-> <<start[1] + i - 1>>]
    ELSE IF start[2] # end[2]
    THEN [i \in 1..(end[2] - start[2] + 1) |-> <<start[1], start[2] + i - 1>>]
    ELSE IF start[3] # end[3]
    THEN [i \in 1..(end[3] - start[3] + 1) |-> <<start[1], start[2], start[3] + i - 1>>]
    ELSE << <<start[1], start[2], start[3]>> >>

\* s3.glob: the store objects whose scan start the pattern matches.
glob(pattern) ==
    {o \in Store : \A k \in 1..Len(pattern) : o.scan_start[k] = pattern[k]}

\* utilities.filter_filepaths: the objects whose scan start is in [start, end].
filter_filepaths(files, start, end) ==
    {o \in files : NotAfter(start, o.scan_start) /\ NotAfter(o.scan_start, end)}

\* A slip that returns what was listed, unfiltered.
list_s3_files_unfiltered(files, start, end) == files

\* Lines 62-66: without an end time the listed files, else the filtered ones.
list_s3_files_return(files, start, end) ==
    IF end = None THEN files ELSE filter_filepaths(files, start, end)

\* Lines 50-60: the patterns of the request.
Plan ==
    /\ ls_pc = "start"
    /\ glob_patterns' = decide_fastest_glob_patterns(start_time, end_time)
    /\ ls_pc' = "glob"
    /\ UNCHANGED <<start_time, end_time, globbed, filepaths, listed>>
    /\ UNCHANGED <<seqVars, dlVars>>

\* Line 61: one pattern is listed and its matches join the flattened result.
Glob ==
    /\ ls_pc = "glob"
    /\ globbed < Len(glob_patterns)
    /\ filepaths' = filepaths \cup glob(glob_patterns[globbed + 1])
    /\ globbed' = globbed + 1
    /\ UNCHANGED <<start_time, end_time, glob_patterns, listed, ls_pc>>
    /\ UNCHANGED <<seqVars, dlVars>>

\* Lines 62-66: the return.
ListReturn ==
    /\ ls_pc = "glob"
    /\ globbed = Len(glob_patterns)
    /\ listed' = list_s3_files_return(filepaths, start_time, end_time)
    /\ ls_pc' = "done"
    /\ UNCHANGED <<start_time, end_time, glob_patterns, globbed, filepaths>>
    /\ UNCHANGED <<seqVars, dlVars>>

InitList ==
    /\ start_time \in Timestamps
    /\ end_time \in Timestamps \cup {None}
    /\ glob_patterns = <<>> /\ globbed = 0 /\ filepaths = {} /\ listed = {}
    /\ ls_pc = "start"
    /\ SeqIdle /\ DlIdle

NextList == Plan \/ Glob \/ ListReturn

SpecList == InitList /\ [][NextList]_vars

\* Minutes since the start of year 0 of a calendar of 366-day years: an order
\* preserving count, used only to state the range of a request.
MinuteCount(ts) == ((ts[1] * 366 + ts[2]) * 24 + ts[3]) * 60 + ts[4]

\* C6: with an end time, list_s3_files returns exactly the store objects whose
\* scan start lies in [start_time, end_time]: the over-matched objects of the
\* coarser patterns are discarded and no in-range object is missed.
C6_ExactlyTheObjectsInRange ==
    (ls_pc = "done" /\ end_time # None) =>
        /\ listed = {o \in Store : /\ MinuteCount(start_time) <= MinuteCount(o.scan_start)
                                   /\ MinuteCount(o.scan_start) <= MinuteCount(end_time)}
        /\ listed \subseteq filepaths

\* C6 witness: a listing returned, its patterns had matched objects outside
\* the range, and the objects in range were kept.
C6_Witness ==
    /\ ls_pc = "done" /\ end_time # None
    /\ listed # {}
    /\ listed # filepaths

====
